---- MODULE Spec2Model ----
(***************************************************************************)
(* Model of sunkit_image/flct/flct.py: the Python wrapper around the       *)
(* native FLCT extension `_pyflct`.  The wrapper keeps no state between    *)
(* calls except the module global `_pyflct` set at import, so one          *)
(* behaviour of the model is one call: Init draws the call (operation and  *)
(* arguments) and the state of `_pyflct`, and the action of the operation  *)
(* runs the whole function body, recording every call it makes to the      *)
(* native extension, the output buffers it allocates and how it ends.      *)
(***************************************************************************)
EXTENDS Integers, Sequences, FiniteSets, TLC

VARIABLES
    pyflct,     \* the module global `_pyflct`: None, or the loaded extension
    call,       \* the call being made: operation and arguments
    status,     \* "pending" before the function body has run, "done" after
    outcome,    \* how the call ended: exception raised or value returned
    native,     \* the calls made to the native extension, in order
    buffers     \* the output buffers allocated with np.zeros, in order

vars == <<pyflct, call, status, outcome, native, buffers>>

-----------------------------------------------------------------------------
(* Bounds of the argument space explored.                                  *)

MaxSkip == 2        \* skip ranges over None and -1 .. MaxSkip
MaxOff == 2         \* poff, qoff range over -MaxOff .. MaxOff
MaxDim == 3         \* image extents range over 1 .. MaxDim
MaxKrOver == 5      \* the largest kr tried is KrLimit + MaxKrOver

(* Program constants.                                                      *)
KrLimit == 20       \* flct.py:409, kr >= 20.0 is rejected
IerOk == 1          \* flct.py:54, `ier is not 1` is a failure

-----------------------------------------------------------------------------
(* Python values.                                                          *)

\* An optional argument: None is the empty tuple, a supplied value v is <<v>>.
None == <<>>
Some(v) == <<v>>
IsNone(x) == x = <<>>
Val(x) == x[1]

Abs(x) == IF x < 0 THEN 0 - x ELSE x

\* The values a boolean-like flag is given: the bools and the ints 1 and 0.
FlagValues == {"True", "False", "1", "0"}
Truthy(f) == f \in {"True", "1"}

\* `x is True`, `x is False`: identity with the bool singletons; the ints
\* 1 and 0 are equal to them but are not them.
IsTrue(f) == f = "True"
IsFalse(f) == f = "False"

\* Strings are tuples of characters.
LowerChar(ch) ==
    CASE ch = "R" -> "r" [] ch = "O" -> "o" [] ch = "W" -> "w"
      [] ch = "C" -> "c" [] ch = "L" -> "l" [] ch = "U" -> "u"
      [] ch = "M" -> "m" [] ch = "N" -> "n"
      [] OTHER -> ch

\* str.lower()
Lower(s) == [i \in DOMAIN s |-> LowerChar(s[i])]

row == <<"r", "o", "w">>
column == <<"c", "o", "l", "u", "m", "n">>

\* A str object: its text, and whether it is the interned constant of that
\* text (a literal of the caller's source) or an object built at run time.
\* `order is "row"` compares identity with the module's interned literal, so
\* it holds only of the interned constant of exactly that text.
OrderIs(order, literal) == order.text = literal /\ order.interned

-----------------------------------------------------------------------------
(* The native extension.  Its source is not part of flct.py; only the      *)
(* shape of what it hands back is modelled.                                *)

\* _pyflct.swap_order_two / swap_order_three: the arrays come back permuted,
\* with the shape they had.
swap_order(image) == image

\* _pyflct.pyflct / pyflct_plate_carree: a status and three flat arrays of
\* nx * ny samples.
engine_reply(nx, ny, ier) ==
    [ier |-> ier, vx_c |-> nx * ny, vy_c |-> nx * ny, vm_c |-> nx * ny]

-----------------------------------------------------------------------------
(* The steps of the function bodies, in source order.                      *)

\* backend_missing with the check left out (sensitivity of C7).
backend_missing_never(backend) == FALSE

\* `_pyflct is None`
backend_missing(backend) == backend = "None"

\* order_invalid with the validation left out (sensitivity of C3).
order_invalid_never(order) == FALSE

\* `order.lower() not in ["row", "column"]`
order_invalid(order) == Lower(order.text) \notin {row, column}

\* read/write: `if order is "row": transp = 0 else: transp = 1`
transp_code(order) == IF OrderIs(order, row) THEN 0 ELSE 1

\* flct: `if order is "column":` the order swap is performed
swap_wanted(order) == OrderIs(order, column)

\* `if quiet is True: verbose = 0 else: verbose = 1`
verbose_code(quiet) == IF IsTrue(quiet) THEN 0 ELSE 1

\* `if flag is False: flag = 0 else: flag = 1` (biascor, absflag, interp)
flag_code(flag) == IF IsFalse(flag) THEN 0 ELSE 1

\* `if skip <= 0: raise`
skip_not_positive(skip) == Val(skip) <= 0

\* offset_too_big with > for >= (sensitivity of C1).
offset_too_big_strict(skip, poff, qoff) ==
    Abs(poff) > Val(skip) \/ Abs(qoff) > Val(skip)

\* `if np.abs(poff) >= skip or np.abs(qoff) >= skip: raise`
offset_too_big(skip, poff, qoff) ==
    Abs(poff) >= Val(skip) \/ Abs(qoff) >= Val(skip)

\* `else: skip = 0`: the skip used from line 405 on
skip_value(skip) == IF IsNone(skip) THEN 0 ELSE Val(skip)

\* kr_invalid with > for >= at the upper limit (sensitivity of C2).
kr_invalid_inclusive(kr) == Val(kr) <= 0 \/ Val(kr) > KrLimit

\* `if kr <= 0.0 or kr >= 20.0: raise`
kr_invalid(kr) == Val(kr) <= 0 \/ Val(kr) >= KrLimit

\* `filter = 1` when kr is given, `filter = 0` otherwise
filter_code(kr) == IF IsNone(kr) THEN 0 ELSE 1

\* `else: kr = 0.0`
kr_value(kr) == IF IsNone(kr) THEN 0 ELSE Val(kr)

\* `if(poff < 0): poff = skip - np.abs(poff)`, with skip as left by line 405
resolve_offset(off, skip) == IF off < 0 THEN skip - Abs(off) ELSE off

\* grid_ny reading shape[0] for shape[1] (sensitivity of C5).
grid_ny_rows(image2, sigma) == IF sigma = 0 THEN 1 ELSE image2[1]

\* `nx = image1.shape[0]`, `ny = image2.shape[1]`, both 1 when sigma == 0
grid_nx(image1, sigma) == IF sigma = 0 THEN 1 ELSE image1[1]
grid_ny(image2, sigma) == IF sigma = 0 THEN 1 ELSE image2[2]

\* `if skip is not None: if skip >= nx or skip >= ny: raise`; skip is the
\* integer left by line 405, never None here
skip_too_big(skip, nx, ny) == skip >= nx \/ skip >= ny

\* `if pc is True:` picks the plate-carree engine
engine_name(pc) == IF IsTrue(pc) THEN "pyflct_plate_carree" ELSE "pyflct"

\* `vx_c.reshape((nx, ny))`: the shape asked for; numpy raises ValueError
\* when the array does not hold nx * ny samples
reshape_ok(size, nx, ny) == size = nx * ny
reshape(size, nx, ny) == <<nx, ny>>

\* `ier is not 1`
ier_failed(ier) == ier # IerOk

\* How a call ends, with the native calls and allocations it made.
Ends(kind, why, value, calls, allocs) ==
    [outcome |-> [kind |-> kind, why |-> why, value |-> value],
     native |-> calls, buffers |-> allocs]

\* An exception raised before anything is allocated; why names the raise site.
Raise(kind, why, calls) ==
    [outcome |-> [kind |-> kind, why |-> why, value |-> None],
     native |-> calls, buffers |-> <<>>]

\* The body of flct (lines 364-497).  c: the arguments; ier: the status the
\* engine reports if it is reached.  deltat, deltas, thresh, latmin and
\* latmax are handed to the engine as given and are left out, as is skipon
\* (line 400), which is computed and never used.
flct_body(c, backend, ier) ==
    IF backend_missing(backend) THEN Raise("ImportError", "backend", <<>>)
    ELSE IF order_invalid(c.order) THEN Raise("ValueError", "order", <<>>)
    ELSE
    LET swap == swap_wanted(c.order)
        calls0 == IF swap
                  THEN <<[fn |-> "swap_order_two",
                          args |-> <<c.image1, c.image2>>]>>
                  ELSE <<>>
        image1 == IF swap THEN swap_order(c.image1) ELSE c.image1
        image2 == IF swap THEN swap_order(c.image2) ELSE c.image2
        verbose == verbose_code(c.quiet)
        biascor == flag_code(c.biascor)
        absflag == flag_code(c.absflag)
        interp == flag_code(c.interp)
    IN
    IF ~IsNone(c.skip) /\ skip_not_positive(c.skip)
    THEN Raise("ValueError", "skip", calls0)
    ELSE IF ~IsNone(c.skip) /\ offset_too_big(c.skip, c.poff, c.qoff)
    THEN Raise("ValueError", "offset", calls0)
    ELSE IF ~IsNone(c.kr) /\ kr_invalid(c.kr)
    THEN Raise("ValueError", "kr", calls0)
    ELSE
    LET skip == skip_value(c.skip)
        filter == filter_code(c.kr)
        kr == kr_value(c.kr)
        poff == resolve_offset(c.poff, skip)
        qoff == resolve_offset(c.qoff, skip)
        nx == grid_nx(image1, c.sigma)
        ny == grid_ny(image2, c.sigma)
    IN
    IF skip_too_big(skip, nx, ny) THEN Raise("ValueError", "dimension", calls0)
    ELSE
    LET transp == 1
        allocs == <<nx * ny, nx * ny, nx * ny>>
        reply == engine_reply(nx, ny, ier)
        calls1 == Append(calls0,
                    [fn |-> engine_name(c.pc),
                     args |-> [transp |-> transp, image1 |-> image1,
                               image2 |-> image2, nx |-> nx, ny |-> ny,
                               sigma |-> c.sigma, absflag |-> absflag,
                               filter |-> filter, kr |-> kr, skip |-> skip,
                               poff |-> poff, qoff |-> qoff,
                               interp |-> interp, biascor |-> biascor,
                               verbose |-> verbose],
                     ier |-> reply.ier])
    IN
    IF ~(reshape_ok(reply.vx_c, nx, ny) /\ reshape_ok(reply.vy_c, nx, ny)
         /\ reshape_ok(reply.vm_c, nx, ny))
    THEN Ends("ValueError", "reshape", None, calls1, allocs)
    ELSE Ends("return", "end",
              Some([vx |-> reshape(reply.vx_c, nx, ny),
                    vy |-> reshape(reply.vy_c, nx, ny),
                    vm |-> reshape(reply.vm_c, nx, ny)]),
              calls1, allocs)

\* The body of read_2_images (lines 41-58); ier: the status the reader reports.
read_2_images_body(c, backend, ier) ==
    IF backend_missing(backend) THEN Raise("ImportError", "backend", <<>>)
    ELSE IF order_invalid(c.order) THEN Raise("ValueError", "order", <<>>)
    ELSE
    LET transp == transp_code(c.order)
        calls == <<[fn |-> "read_two_images", args |-> [transp |-> transp],
                    ier |-> ier]>>
    IN IF ier_failed(ier) THEN Raise("ValueError", "file", calls)
       ELSE Ends("return", "end", Some(<<"a", "b">>), calls, <<>>)

\* The body of read_3_images (lines 85-102).
read_3_images_body(c, backend, ier) ==
    IF backend_missing(backend) THEN Raise("ImportError", "backend", <<>>)
    ELSE IF order_invalid(c.order) THEN Raise("ValueError", "order", <<>>)
    ELSE
    LET transp == transp_code(c.order)
        calls == <<[fn |-> "read_three_images", args |-> [transp |-> transp],
                    ier |-> ier]>>
    IN IF ier_failed(ier) THEN Raise("ValueError", "file", calls)
       ELSE Ends("return", "end", Some(<<"a", "b", "c">>), calls, <<>>)

\* The body of write_2_images (lines 127-141); it returns None.
write_2_images_body(c, backend, ier) ==
    IF backend_missing(backend) THEN Raise("ImportError", "backend", <<>>)
    ELSE IF order_invalid(c.order) THEN Raise("ValueError", "order", <<>>)
    ELSE
    LET transp == transp_code(c.order)
        calls == <<[fn |-> "write_two_images", args |-> [transp |-> transp],
                    ier |-> ier]>>
    IN IF ier_failed(ier) THEN Raise("ValueError", "file", calls)
       ELSE Ends("return", "end", None, calls, <<>>)

\* The body of write_3_images (lines 168-182); it returns None.
write_3_images_body(c, backend, ier) ==
    IF backend_missing(backend) THEN Raise("ImportError", "backend", <<>>)
    ELSE IF order_invalid(c.order) THEN Raise("ValueError", "order", <<>>)
    ELSE
    LET transp == transp_code(c.order)
        calls == <<[fn |-> "write_three_images", args |-> [transp |-> transp],
                    ier |-> ier]>>
    IN IF ier_failed(ier) THEN Raise("ValueError", "file", calls)
       ELSE Ends("return", "end", None, calls, <<>>)

\* The body of column_row_of_two (lines 207-212).
column_row_of_two_body(c, backend) ==
    IF backend_missing(backend) THEN Raise("ImportError", "backend", <<>>)
    ELSE Ends("return", "end",
              Some(<<swap_order(c.image1), swap_order(c.image2)>>),
              <<[fn |-> "swap_order_two",
                 args |-> <<c.image1, c.image2>>]>>, <<>>)

\* The body of column_row_of_three (lines 239-244); the third array has the
\* shape of the first two.
column_row_of_three_body(c, backend) ==
    IF backend_missing(backend) THEN Raise("ImportError", "backend", <<>>)
    ELSE Ends("return", "end",
              Some(<<swap_order(c.image1), swap_order(c.image2),
                     swap_order(c.image1)>>),
              <<[fn |-> "swap_order_three",
                 args |-> <<c.image1, c.image2, c.image1>>]>>, <<>>)

-----------------------------------------------------------------------------
(* The calls explored.                                                     *)

\* The spellings of order tried: the two documented ones, other cases of
\* them, and two that are neither.
OrderTexts ==
    {row, column,
     <<"R", "o", "w">>, <<"R", "O", "W">>,
     <<"C", "o", "l", "u", "m", "n">>, <<"C", "O", "L", "U", "M", "N">>,
     <<"d", "i", "a", "g", "o", "n", "a", "l">>, <<"r", "o", "w", "s">>}

\* Every spelling as an interned constant; the two documented spellings also
\* as strings built at run time (equal to the literal, not identical to it).
Orders ==
    {[text |-> t, interned |-> TRUE] : t \in OrderTexts}
    \cup {[text |-> t, interned |-> FALSE] : t \in {row, column}}

Skips == {None} \cup {Some(k) : k \in -1 .. MaxSkip}
Offs == -MaxOff .. MaxOff
Krs == {None} \cup {Some(k) : k \in {0, 1, KrLimit - 1, KrLimit,
                                      KrLimit + MaxKrOver}}
Sigmas == {0, 1}
Shapes == (1 .. MaxDim) \X (1 .. MaxDim)
IerValues == {0, IerOk}
Backends == {"None", "loaded"}

\* flct called with the documented defaults for the flags and every
\* combination of order, skip, offsets, kr, sigma and image shape.  The two
\* images have the same shape, as flct's callers are required to pass.
FlctGridCalls ==
    {[r EXCEPT !.image2 = r.image1] :
        r \in [op : {"flct"}, order : Orders,
               quiet : {"False"}, biascor : {"False"}, absflag : {"False"},
               interp : {"False"}, pc : {"False"},
               skip : Skips, poff : Offs, qoff : Offs, kr : Krs,
               sigma : Sigmas, image1 : Shapes, image2 : {<<1, 1>>}]}

\* flct called with every combination of flag values, on the largest image.
FlctFlagCalls ==
    [op : {"flct"},
     order : {[text |-> t, interned |-> TRUE] : t \in {row, column}},
     quiet : FlagValues, biascor : FlagValues, absflag : FlagValues,
     interp : FlagValues, pc : FlagValues,
     skip : {None, Some(1)}, poff : {0}, qoff : {0}, kr : {None, Some(1)},
     sigma : {1}, image1 : {<<MaxDim, MaxDim>>}, image2 : {<<MaxDim, MaxDim>>}]

\* The other six operations; the arguments they do not take are left at
\* flct's defaults and are not read.
OtherOps ==
    {"read_2_images", "read_3_images", "write_2_images", "write_3_images",
     "column_row_of_two", "column_row_of_three"}

OtherCalls ==
    {[r EXCEPT !.image2 = r.image1] :
        r \in [op : OtherOps, order : Orders,
               quiet : {"False"}, biascor : {"False"}, absflag : {"False"},
               interp : {"False"}, pc : {"False"},
               skip : {None}, poff : {0}, qoff : {0}, kr : {None},
               sigma : {1}, image1 : Shapes, image2 : {<<1, 1>>}]}

Calls == FlctGridCalls \cup FlctFlagCalls \cup OtherCalls

-----------------------------------------------------------------------------
(* The state machine.                                                      *)

NoOutcome == [kind |-> "none", why |-> "none", value |-> None]

Init ==
    /\ pyflct \in Backends
    /\ call \in Calls
    /\ status = "pending"
    /\ outcome = NoOutcome
    /\ native = <<>>
    /\ buffers = <<>>

\* The call runs to its end with result r.
Finish(r) ==
    /\ status' = "done"
    /\ outcome' = r.outcome
    /\ native' = r.native
    /\ buffers' = r.buffers
    /\ UNCHANGED <<pyflct, call>>

Pending(op) == status = "pending" /\ call.op = op

flct ==
    /\ Pending("flct")
    /\ \E ier \in IerValues : Finish(flct_body(call, pyflct, ier))

read_2_images ==
    /\ Pending("read_2_images")
    /\ \E ier \in IerValues : Finish(read_2_images_body(call, pyflct, ier))

read_3_images ==
    /\ Pending("read_3_images")
    /\ \E ier \in IerValues : Finish(read_3_images_body(call, pyflct, ier))

write_2_images ==
    /\ Pending("write_2_images")
    /\ \E ier \in IerValues : Finish(write_2_images_body(call, pyflct, ier))

write_3_images ==
    /\ Pending("write_3_images")
    /\ \E ier \in IerValues : Finish(write_3_images_body(call, pyflct, ier))

column_row_of_two ==
    /\ Pending("column_row_of_two")
    /\ Finish(column_row_of_two_body(call, pyflct))

column_row_of_three ==
    /\ Pending("column_row_of_three")
    /\ Finish(column_row_of_three_body(call, pyflct))

Next ==
    \/ flct
    \/ read_2_images
    \/ read_3_images
    \/ write_2_images
    \/ write_3_images
    \/ column_row_of_two
    \/ column_row_of_three

Spec == Init /\ [][Next]_vars

-----------------------------------------------------------------------------
(* Vocabulary of the properties.                                           *)

Done(op) == status = "done" /\ call.op = op
Loaded == pyflct = "loaded"

OrderOps ==
    {"flct", "read_2_images", "read_3_images", "write_2_images",
     "write_3_images"}
FileOps == OrderOps \ {"flct"}
EngineFns == {"pyflct", "pyflct_plate_carree"}

\* The positions in the log of native calls of the engine calls, of the
\* order-swap calls.
EngineCalls == {i \in DOMAIN native : native[i].fn \in EngineFns}
SwapCalls == {i \in DOMAIN native : native[i].fn = "swap_order_two"}

\* The raise sites of flct that report a bad argument.
ArgumentSites == {"order", "skip", "offset", "kr", "dimension"}
ArgumentError == outcome.kind = "ValueError" /\ outcome.why \in ArgumentSites

\* The spellings that mean row-major, column-major.
RowSpellings == {row, <<"R", "o", "w">>, <<"R", "O", "W">>}
ColumnSpellings ==
    {column, <<"C", "o", "l", "u", "m", "n">>,
     <<"C", "O", "L", "U", "M", "N">>}

-----------------------------------------------------------------------------
(* C1: in flct with the extension loaded and skip supplied, the call fails *)
(* with ValueError if skip <= 0 or |poff| >= skip or |qoff| >= skip, and   *)
(* whenever the engine is called each offset it is handed is the caller's  *)
(* offset when that is >= 0 and skip - |offset| when it is negative, so    *)
(* that 0 <= offset < skip.                                                *)
C1_SkipOffsets ==
    (Done("flct") /\ Loaded /\ ~IsNone(call.skip)) =>
        LET skip == Val(call.skip) IN
        /\ (skip <= 0 \/ Abs(call.poff) >= skip \/ Abs(call.qoff) >= skip)
              => (outcome.kind = "ValueError" /\ EngineCalls = {})
        /\ \A i \in EngineCalls :
              LET a == native[i].args IN
              /\ a.poff = (IF call.poff >= 0 THEN call.poff
                           ELSE skip - Abs(call.poff))
              /\ a.qoff = (IF call.qoff >= 0 THEN call.qoff
                           ELSE skip - Abs(call.qoff))
              /\ 0 <= a.poff /\ a.poff < skip
              /\ 0 <= a.qoff /\ a.qoff < skip

\* C1 witness: the engine was called with skip supplied and a negative poff
\* and a positive qoff.
C1_Witness ==
    /\ Done("flct") /\ ~IsNone(call.skip) /\ call.poff < 0 /\ call.qoff > 0
    /\ EngineCalls # {}

(* C2: in flct with the extension loaded, a supplied kr outside 0 < kr < 20 *)
(* makes the call fail with ValueError and flct raises on the kr check only *)
(* for such a kr; when the engine is called it is handed filter code 1 and  *)
(* that kr if kr was supplied, filter code 0 and kr = 0 if it was not.      *)
C2_KrFilter ==
    (Done("flct") /\ Loaded) =>
        /\ (~IsNone(call.kr) /\ ~(0 < Val(call.kr) /\ Val(call.kr) < 20))
              => (outcome.kind = "ValueError" /\ EngineCalls = {})
        /\ outcome.why = "kr"
              => (~IsNone(call.kr)
                  /\ ~(0 < Val(call.kr) /\ Val(call.kr) < 20))
        /\ \A i \in EngineCalls :
              LET a == native[i].args IN
              IF IsNone(call.kr) THEN a.filter = 0 /\ a.kr = 0
              ELSE a.filter = 1 /\ a.kr = Val(call.kr)

\* C2 witness: the engine was called with the largest kr accepted.
C2_Witness ==
    /\ Done("flct") /\ call.kr = Some(19)
    /\ \E i \in EngineCalls : native[i].args.filter = 1

(* C3: with the extension loaded, an order that spells neither row nor     *)
(* column makes flct and the four read/write operations fail with          *)
(* ValueError, with no call to the native extension and nothing returned.  *)
C3_BadOrder ==
    \A op \in OrderOps :
        (Done(op) /\ Loaded
         /\ call.order.text \notin RowSpellings \cup ColumnSpellings) =>
            /\ outcome.kind = "ValueError"
            /\ native = <<>>
            /\ IsNone(outcome.value)

\* C3 witness: write_3_images was called with order "diagonal".
C3_Witness ==
    /\ Done("write_3_images") /\ Loaded
    /\ call.order.text = <<"d", "i", "a", "g", "o", "n", "a", "l">>
    /\ outcome.kind = "ValueError"

(* C4 (as claimed): flct raises on the dimension check only when skip is   *)
(* supplied and skip >= nx or skip >= ny of the input images, whatever     *)
(* sigma is.                                                               *)
C4_DimensionCheck ==
    (Done("flct") /\ Loaded /\ outcome.why = "dimension") =>
        /\ ~IsNone(call.skip)
        /\ \/ Val(call.skip) >= call.image1[1]
           \/ Val(call.skip) >= call.image2[2]

C6_ReturnOnlyOnSuccess ==
    (Done("flct") /\ outcome.kind = "return") =>
        \A i \in EngineCalls : native[i].ier = IerOk

(* C7: with the extension missing, each of the seven operations raises     *)
(* ImportError whatever its arguments, calls nothing and returns nothing.  *)
C7_MissingDependency ==
    (status = "done" /\ ~Loaded) =>
        /\ outcome.kind = "ImportError"
        /\ native = <<>>
        /\ IsNone(outcome.value)

\* C7 witness: flct was called without the extension, with a bad order, a
\* bad skip and a bad kr.
C7_Witness ==
    /\ Done("flct") /\ ~Loaded
    /\ call.order.text = <<"d", "i", "a", "g", "o", "n", "a", "l">>
    /\ call.skip = Some(0) /\ call.kr = Some(0)
    /\ outcome.kind = "ImportError"

(* C8 (as claimed): when flct ends in an argument error, no call to the    *)
(* native extension has been made and no output buffer allocated.          *)
C8_NothingBeforeArgumentError ==
    (Done("flct") /\ ArgumentError) => (native = <<>> /\ buffers = <<>>)

(* C9 (as claimed): an accepted order acts by its meaning in every         *)
(* spelling: an flct call that reaches the engine has swapped exactly      *)
(* once, before the engine call, for a column spelling and never for a row *)
(* spelling; the read/write operations pass transpose code 0 for a row     *)
(* spelling and 1 for a column spelling.                                   *)
C9_OrderMeaning ==
    /\ (Done("flct") /\ Loaded /\ EngineCalls # {}) =>
          /\ call.order.text \in ColumnSpellings
                => /\ Cardinality(SwapCalls) = 1
                   /\ \A i \in SwapCalls : \A j \in EngineCalls : i < j
          /\ call.order.text \in RowSpellings => SwapCalls = {}
    /\ \A op \in FileOps :
          (Done(op) /\ Loaded) =>
              \A i \in DOMAIN native :
                  native[i].args.transp =
                      (IF call.order.text \in RowSpellings THEN 0 ELSE 1)

(* C10 (as claimed): each flag acts by its truth value: the engine gets    *)
(* biascor, absflag, interp = 1 exactly when the flag is truthy, verbose   *)
(* = 0 exactly when quiet is truthy, and the plate-carree engine is the    *)
(* one called exactly when pc is truthy.                                   *)
C10_FlagTruth ==
    Done("flct") =>
        \A i \in EngineCalls :
            LET a == native[i].args
                Code(f) == IF Truthy(f) THEN 1 ELSE 0
            IN /\ a.biascor = Code(call.biascor)
               /\ a.absflag = Code(call.absflag)
               /\ a.interp = Code(call.interp)
               /\ a.verbose = 1 - Code(call.quiet)
               /\ (native[i].fn = "pyflct_plate_carree") = Truthy(call.pc)

====
